---- MODULE Spec2Model ----
(***************************************************************************)
(* A model of the tileset resolver (src/src/tileset.rs) and of the object  *)
(* and shape decoder (src/src/object.rs) of rs-tiled.                      *)
(*                                                                         *)
(* Strings are sequences of one-character strings, so that splitting and   *)
(* numeric parsing are computed, not assumed.  An f32 is the exact decimal *)
(* [num, scale] = num / 10^scale in lowest form; the inputs are short, so  *)
(* no rounding occurs.                                                     *)
(***************************************************************************)
EXTENDS Integers, Sequences, FiniteSets, TLC

\* ------------------------------------------------------------------ bounds
\* Longest points string of SpecPoints.
MaxLen == 7
\* Start tags and text events the primary cursor delivers inside an object
\* or objectgroup element.
MaxEvents == 3
\* Start tags and text events the primary cursor delivers inside a tileset element.
MaxTilesetEvents == 2
\* Start tags and text events the cursor of an external tileset document delivers.
MaxExtEvents == 2
\* Start tags and text events of the document Tileset::new_external is
\* called on directly (SpecExternal).
MaxScanEvents == 3

\* ----------------------------------------------------------------- strings
Digits == {"0", "1", "2", "3", "4", "5", "6", "7", "8", "9"}

DigitVal(c) ==
  CASE c = "0" -> 0 [] c = "1" -> 1 [] c = "2" -> 2 [] c = "3" -> 3
    [] c = "4" -> 4 [] c = "5" -> 5 [] c = "6" -> 6 [] c = "7" -> 7
    [] c = "8" -> 8 [] c = "9" -> 9

RECURSIVE Pow10(_)
Pow10(k) == IF k = 0 THEN 1 ELSE 10 * Pow10(k - 1)

\* The decimal value of a string of digits (0 for the empty string).
RECURSIVE DecVal(_)
DecVal(s) ==
  IF s = <<>> THEN 0
  ELSE 10 * DecVal(SubSeq(s, 1, Len(s) - 1)) + DigitVal(s[Len(s)])

AllDigits(s) == \A i \in 1..Len(s) : s[i] \in Digits

None == [some |-> FALSE]
Some(v) == [some |-> TRUE, val |-> v]

\* <u32 as FromStr>::from_str: an optional "+", then one digit or more.
ParseU32(s) ==
  LET body == IF s # <<>> /\ s[1] = "+" THEN Tail(s) ELSE s
  IN  IF body # <<>> /\ AllDigits(body) THEN Some(DecVal(body)) ELSE None

\* <i32 as FromStr>::from_str: an optional sign, then one digit or more.
ParseI32(s) ==
  LET signed == s # <<>> /\ s[1] \in {"+", "-"}
      body == IF signed THEN Tail(s) ELSE s
  IN  IF body # <<>> /\ AllDigits(body)
      THEN Some(IF signed /\ s[1] = "-" THEN 0 - DecVal(body) ELSE DecVal(body))
      ELSE None

\* <bool as FromStr>::from_str: exactly "true" or "false".
ParseBool(s) ==
  IF s = <<"t", "r", "u", "e">> THEN Some(TRUE)
  ELSE IF s = <<"f", "a", "l", "s", "e">> THEN Some(FALSE)
  ELSE None

\* <String as FromStr>::from_str never fails.
ParseString(s) == Some(s)

\* The exact decimal num / 10^scale in lowest form.
RECURSIVE Normal(_, _)
Normal(num, scale) ==
  IF scale > 0 /\ num % 10 = 0 THEN Normal(num \div 10, scale - 1)
  ELSE [num |-> num, scale |-> scale]

F32(n) == [num |-> n, scale |-> 0]

\* <f32 as FromStr>::from_str on strings of signs, digits, "." and
\* non-numeric characters: an optional sign, then digits with at most one
\* ".", at least one digit in all.
ParseF32(s) ==
  LET signed == s # <<>> /\ s[1] \in {"+", "-"}
      body == IF signed THEN Tail(s) ELSE s
      dots == {i \in 1..Len(body) : body[i] = "."}
      wellformed == /\ \A i \in 1..Len(body) : body[i] \in Digits \cup {"."}
                    /\ Cardinality(dots) <= 1
                    /\ \E i \in 1..Len(body) : body[i] \in Digits
      dot == IF dots = {} THEN Len(body) + 1 ELSE CHOOSE i \in dots : TRUE
      int == SubSeq(body, 1, dot - 1)
      frac == SubSeq(body, dot + 1, Len(body))
      mag == DecVal(int) * Pow10(Len(frac)) + DecVal(frac)
  IN  IF wellformed
      THEN Some(Normal(IF signed /\ s[1] = "-" THEN 0 - mag ELSE mag, Len(frac)))
      ELSE None

\* str::split(c): the pieces between the occurrences of c, empty ones kept.
RECURSIVE Split(_, _)
Split(s, c) ==
  IF \A i \in 1..Len(s) : s[i] # c THEN <<s>>
  ELSE LET i == CHOOSE k \in 1..Len(s) : s[k] = c /\ \A j \in 1..(k - 1) : s[j] # c
       IN  <<SubSeq(s, 1, i - 1)>> \o Split(SubSeq(s, i + 1, Len(s)), c)

\* ------------------------------------------------------------------ errors
Ok(v) == [ok |-> TRUE, val |-> v]
Err(e) == [ok |-> FALSE, err |-> e]

MalformedAttributes(m) == [kind |-> "MalformedAttributes", msg |-> m]
PrematureEnd(m) == [kind |-> "PrematureEnd", msg |-> m]
XmlDecodingError == [kind |-> "XmlDecodingError", msg |-> "decoding"]
Other(m) == [kind |-> "Other", msg |-> m]

NoXYPair == MalformedAttributes("one of a polyline's points does not have an x and y coordinate")
NotNumeric == MalformedAttributes("one of polyline's points does not have i32eger coordinates")

\* ------------------------------------------------------------ parse_points
\* ParsePair with the numeric check of the tokens before their count.
ParsePairNumericFirst(p) ==
  LET v == Split(p, ",")
  IN  IF \E i \in 1..Len(v) : ~ParseF32(v[i]).some THEN Err(NotNumeric)
      ELSE IF Len(v) # 2 THEN Err(NoXYPair)
      ELSE Ok(<<ParseF32(v[1]).val, ParseF32(v[2]).val>>)

\* The loop body of parse_points on one pair: the token count, then the
\* numeric check.
ParsePair(p) ==
  LET v == Split(p, ",")
  IN  IF Len(v) # 2 THEN Err(NoXYPair)
      ELSE LET x == ParseF32(v[1])
               y == ParseF32(v[2])
           IN  IF ~x.some \/ ~y.some THEN Err(NotNumeric)
               ELSE Ok(<<x.val, y.val>>)

\* PointsLoop with a malformed pair dropped instead of returned as the error.
RECURSIVE PointsLoopDropsBad(_, _)
PointsLoopDropsBad(pairs, points) ==
  IF pairs = <<>> THEN Ok(points)
  ELSE LET r == ParsePair(Head(pairs))
       IN  IF ~r.ok THEN PointsLoopDropsBad(Tail(pairs), points)
           ELSE PointsLoopDropsBad(Tail(pairs), Append(points, r.val))

\* The loop of parse_points: pairs in string order, the first error returns.
RECURSIVE PointsLoop(_, _)
PointsLoop(pairs, points) ==
  IF pairs = <<>> THEN Ok(points)
  ELSE LET r == ParsePair(Head(pairs))
       IN  IF ~r.ok THEN r
           ELSE PointsLoop(Tail(pairs), Append(points, r.val))

parse_points(s) == PointsLoop(Split(s, " "), <<>>)

\* ------------------------------------------------------------- attributes
\* An attribute list is a function from the names present to their values
\* (the cursor rejects a tag that names an attribute twice).
NoAttrs == <<>>

\* Colour::from_str (a collaborator): "#" and six hexadecimal digits.
ParseColour(s) ==
  IF Len(s) = 7 /\ s[1] = "#"
     /\ \A i \in 2..7 : s[i] \in Digits \cup {"a", "b", "c", "d", "e", "f"}
  THEN Some(s) ELSE None

ParseVisibleFlag(s) ==
  LET x == ParseI32(s) IN IF x.some THEN Some(x.val = 1) ELSE None

\* The closure get_attrs! is given for a key, named by the conversion
\* it performs.
Coerce(closure, v) ==
  CASE closure = "ParseU32" -> ParseU32(v)
    [] closure = "ParseF32" -> ParseF32(v)
    [] closure = "ParseBool" -> ParseBool(v)
    [] closure = "ParseString" -> ParseString(v)
    [] closure = "ParseColour" -> ParseColour(v)
    [] closure = "ParseVisibleFlag" -> ParseVisibleFlag(v)
    [] closure = "Some" -> Some(v)

\* get_attrs!, one key: the closure's result on its value when the key
\* is present, None when it is absent or the closure gives None.
GetAttr(attrs, key, closure) ==
  IF key \in DOMAIN attrs THEN Coerce(closure, attrs[key]) ELSE None

UnwrapOr(o, d) == IF o.some THEN o.val ELSE d

\* ------------------------------------------------ new_polyline, new_polygon
Polyline(points) == [kind |-> "Polyline", points |-> points]
Polygon(points) == [kind |-> "Polygon", points |-> points]
Rect(w, h) == [kind |-> "Rect", width |-> w, height |-> h]
Ellipse(w, h) == [kind |-> "Ellipse", width |-> w, height |-> h]

new_polyline(attrs) ==
  LET s == GetAttr(attrs, "points", "Some")
  IN  IF ~s.some THEN Err(MalformedAttributes("A polyline must have points"))
      ELSE LET points == parse_points(s.val)
           IN  IF ~points.ok THEN points ELSE Ok(Polyline(points.val))

new_polygon(attrs) ==
  LET s == GetAttr(attrs, "points", "Some")
  IN  IF ~s.some THEN Err(MalformedAttributes("A polygon must have points"))
      ELSE LET points == parse_points(s.val)
           IN  IF ~points.ok THEN points ELSE Ok(Polygon(points.val))

\* ------------------------------------------------------------------- paths
\* A path is its components, as Path compares them: abs when it starts at
\* the root, comps the names between separators ("." and empty ones dropped).
RECURSIVE DropDots(_)
DropDots(cs) ==
  IF cs = <<>> THEN <<>>
  ELSE IF Head(cs) \in {<<>>, <<".">>} THEN DropDots(Tail(cs))
  ELSE <<Head(cs)>> \o DropDots(Tail(cs))

PathOf(s) == [abs |-> s # <<>> /\ s[1] = "/", comps |-> DropDots(Split(s, "/"))]

\* Path::file_name: the last component, unless the path ends in "..".
FileName(p) ==
  IF p.comps = <<>> \/ p.comps[Len(p.comps)] = <<".", ".">> THEN None
  ELSE Some(p.comps[Len(p.comps)])

\* PathBuf::pop then PathBuf::push, as set_file_name calls them: a path
\* with a file name loses it, and an absolute argument replaces the path.
PathPop(p) == [p EXCEPT !.comps = SubSeq(p.comps, 1, Len(p.comps) - 1)]
PathPush(p, q) == IF q.abs THEN q ELSE [p EXCEPT !.comps = p.comps \o q.comps]

\* Path::with_file_name.
WithFileName(p, name) ==
  PathPush(IF FileName(p).some THEN PathPop(p) ELSE p, PathOf(name))

\* ------------------------------------------------- attribute extraction
TilesetMalformed ==
  MalformedAttributes("tileset must have a firstgid, name tile width and height with correct types")
ObjectMalformed == MalformedAttributes("objects must have an x and a y number")
MustKnowLocation ==
  Other("Maps with external tilesets must know their file location.  See parse_with_path(Path).")
NotFound(path) == Other(<<"External tileset file not found: ", path>>)

\* InternalAttrs with spacing among the required keys.
InternalAttrsSpacingRequired(attrs) ==
  LET spacing == GetAttr(attrs, "spacing", "ParseU32")
      margin == GetAttr(attrs, "margin", "ParseU32")
      first_gid == GetAttr(attrs, "firstgid", "ParseU32")
      name == GetAttr(attrs, "name", "Some")
      width == GetAttr(attrs, "tilewidth", "ParseU32")
      height == GetAttr(attrs, "tileheight", "ParseU32")
  IN  IF first_gid.some /\ name.some /\ width.some /\ height.some /\ spacing.some
      THEN Ok([spacing |-> spacing, margin |-> margin, first_gid |-> first_gid.val,
               name |-> name.val, width |-> width.val, height |-> height.val])
      ELSE Err(TilesetMalformed)

\* get_attrs! of Tileset::new_internal.
InternalAttrs(attrs) ==
  LET spacing == GetAttr(attrs, "spacing", "ParseU32")
      margin == GetAttr(attrs, "margin", "ParseU32")
      first_gid == GetAttr(attrs, "firstgid", "ParseU32")
      name == GetAttr(attrs, "name", "Some")
      width == GetAttr(attrs, "tilewidth", "ParseU32")
      height == GetAttr(attrs, "tileheight", "ParseU32")
  IN  IF first_gid.some /\ name.some /\ width.some /\ height.some
      THEN Ok([spacing |-> spacing, margin |-> margin, first_gid |-> first_gid.val,
               name |-> name.val, width |-> width.val, height |-> height.val])
      ELSE Err(TilesetMalformed)

\* ReferenceAttrs with source taken as an optional key, empty when absent.
ReferenceAttrsSourceOptional(attrs) ==
  LET first_gid == GetAttr(attrs, "firstgid", "ParseU32")
      source == GetAttr(attrs, "source", "Some")
  IN  IF first_gid.some
      THEN Ok([first_gid |-> first_gid.val, source |-> UnwrapOr(source, <<>>)])
      ELSE Err(TilesetMalformed)

\* get_attrs! of Tileset::new_reference.
ReferenceAttrs(attrs) ==
  LET first_gid == GetAttr(attrs, "firstgid", "ParseU32")
      source == GetAttr(attrs, "source", "Some")
  IN  IF first_gid.some /\ source.some
      THEN Ok([first_gid |-> first_gid.val, source |-> source.val])
      ELSE Err(TilesetMalformed)

\* ExternalAttrs reading the firstgid of the external tag when it has one.
ExternalAttrsOwnGid(first_gid, attrs) ==
  LET spacing == GetAttr(attrs, "spacing", "ParseU32")
      margin == GetAttr(attrs, "margin", "ParseU32")
      own == GetAttr(attrs, "firstgid", "ParseU32")
      name == GetAttr(attrs, "name", "Some")
      width == GetAttr(attrs, "tilewidth", "ParseU32")
      height == GetAttr(attrs, "tileheight", "ParseU32")
  IN  IF name.some /\ width.some /\ height.some
      THEN Ok([spacing |-> spacing, margin |-> margin,
               first_gid |-> UnwrapOr(own, first_gid),
               name |-> name.val, width |-> width.val, height |-> height.val])
      ELSE Err(TilesetMalformed)

\* get_attrs! of Tileset::parse_external_tileset, with the first_gid passed in.
ExternalAttrs(first_gid, attrs) ==
  LET spacing == GetAttr(attrs, "spacing", "ParseU32")
      margin == GetAttr(attrs, "margin", "ParseU32")
      name == GetAttr(attrs, "name", "Some")
      width == GetAttr(attrs, "tilewidth", "ParseU32")
      height == GetAttr(attrs, "tileheight", "ParseU32")
  IN  IF name.some /\ width.some /\ height.some
      THEN Ok([spacing |-> spacing, margin |-> margin, first_gid |-> first_gid,
               name |-> name.val, width |-> width.val, height |-> height.val])
      ELSE Err(TilesetMalformed)

\* The Tileset built by new_internal and parse_external_tileset.
MakeTileset(a, images, tiles) ==
  [first_gid |-> a.first_gid, name |-> a.name,
   tile_width |-> a.width, tile_height |-> a.height,
   spacing |-> UnwrapOr(a.spacing, 0), margin |-> UnwrapOr(a.margin, 0),
   images |-> images, tiles |-> tiles]

\* ObjectAttrs with x and y defaulted like the optional attributes.
ObjectAttrsLenient(attrs) ==
  Ok([id |-> UnwrapOr(GetAttr(attrs, "id", "ParseU32"), 0),
      gid |-> UnwrapOr(GetAttr(attrs, "gid", "ParseU32"), 0),
      n |-> UnwrapOr(GetAttr(attrs, "name", "ParseString"), <<>>),
      t |-> UnwrapOr(GetAttr(attrs, "type", "ParseString"), <<>>),
      w |-> UnwrapOr(GetAttr(attrs, "width", "ParseF32"), F32(0)),
      h |-> UnwrapOr(GetAttr(attrs, "height", "ParseF32"), F32(0)),
      v |-> UnwrapOr(GetAttr(attrs, "visible", "ParseBool"), TRUE),
      r |-> UnwrapOr(GetAttr(attrs, "rotation", "ParseF32"), F32(0)),
      x |-> UnwrapOr(GetAttr(attrs, "x", "ParseF32"), F32(0)),
      y |-> UnwrapOr(GetAttr(attrs, "y", "ParseF32"), F32(0))])

\* get_attrs! of Object::new and the defaults that follow it.
ObjectAttrs(attrs) ==
  LET id == GetAttr(attrs, "id", "ParseU32")
      gid == GetAttr(attrs, "gid", "ParseU32")
      n == GetAttr(attrs, "name", "ParseString")
      t == GetAttr(attrs, "type", "ParseString")
      w == GetAttr(attrs, "width", "ParseF32")
      h == GetAttr(attrs, "height", "ParseF32")
      v == GetAttr(attrs, "visible", "ParseBool")
      r == GetAttr(attrs, "rotation", "ParseF32")
      x == GetAttr(attrs, "x", "ParseF32")
      y == GetAttr(attrs, "y", "ParseF32")
  IN  IF x.some /\ y.some
      THEN Ok([id |-> UnwrapOr(id, 0), gid |-> UnwrapOr(gid, 0),
               n |-> UnwrapOr(n, <<>>), t |-> UnwrapOr(t, <<>>),
               w |-> UnwrapOr(w, F32(0)), h |-> UnwrapOr(h, F32(0)),
               v |-> UnwrapOr(v, TRUE), r |-> UnwrapOr(r, F32(0)),
               x |-> x.val, y |-> y.val])
      ELSE Err(ObjectMalformed)

\* ObjectGroupAttrs with an opacity that fails its coercion refused.
ObjectGroupAttrsStrict(attrs) ==
  IF "opacity" \in DOMAIN attrs /\ ~Coerce("ParseF32", attrs["opacity"]).some
  THEN Err(MalformedAttributes("object groups must have a name"))
  ELSE Ok([o |-> GetAttr(attrs, "opacity", "ParseF32"),
           v |-> GetAttr(attrs, "visible", "ParseVisibleFlag"),
           c |-> GetAttr(attrs, "color", "ParseColour"),
           n |-> GetAttr(attrs, "name", "Some")])

\* get_attrs! of ObjectGroup::new: no required key.
ObjectGroupAttrs(attrs) ==
  Ok([o |-> GetAttr(attrs, "opacity", "ParseF32"),
      v |-> GetAttr(attrs, "visible", "ParseVisibleFlag"),
      c |-> GetAttr(attrs, "color", "ParseColour"),
      n |-> GetAttr(attrs, "name", "Some")])

\* MakeShape with width and height of the default rectangle exchanged.
MakeShapeSwapped(a, shape) == UnwrapOr(shape, Rect(a.h, a.w))

\* shape.unwrap_or(Rect{width: w, height: h}).
MakeShape(a, shape) == UnwrapOr(shape, Rect(a.w, a.h))

\* The Object built at the end of Object::new.
MakeObject(loc) ==
  [id |-> loc.a.id, gid |-> loc.a.gid, name |-> loc.a.n, obj_type |-> loc.a.t,
   x |-> loc.a.x, y |-> loc.a.y, rotation |-> loc.a.r, visible |-> loc.a.v,
   shape |-> MakeShape(loc.a, loc.shape), properties |-> loc.properties]

\* The ObjectGroup built at the end of ObjectGroup::new.
MakeObjectGroup(loc) ==
  [name |-> UnwrapOr(loc.a.n, <<>>), opacity |-> UnwrapOr(loc.a.o, F32(1)),
   visible |-> UnwrapOr(loc.a.v, TRUE), objects |-> loc.objects, colour |-> loc.a.c]

\* ------------------------------------------------------------------- state
VARIABLES
  pstr,     \* SpecPoints: the points string under test
  pres,     \* SpecPoints: None, or Some of [fn, attrs, out]: the call made and its result
  entry,    \* the constructor called: "tileset", "objectgroup", "object" or "none"
  attrs0,   \* the attribute list passed to it
  mapPath,  \* Tileset::new's map_path: None or Some(path)
  pc,       \* "call", "parse", "reference", "scan", "extparse", "done" or "idle"
  stack,    \* the constructors running, innermost last
  cur,      \* the primary cursor: [open, fuel]
  ext,      \* the cursor of the external tileset document: [open, fuel]
  result,   \* None, or Some(the Result the entry call returned)
  emb,      \* how new_internal ended: [stage, err]
  ref,      \* how far new_reference went: [stage, first_gid, tag]
  opened,   \* the paths File::open was called with, in order
  lastEv,   \* the last start tag read: [name, expect, got]
  lastRet   \* the last return of a constructor: [fn, ok, ...]

pvars == <<pstr, pres>>
mvars == <<entry, attrs0, mapPath, pc, stack, cur, ext, result, emb, ref, opened,
           lastEv, lastRet>>
vars == <<pstr, pres, entry, attrs0, mapPath, pc, stack, cur, ext, result, emb, ref,
          opened, lastEv, lastRet>>

\* ------------------------------------------------------------------ inputs
\* Every attribute list over the keys of vals, each key absent or with one
\* of its values.
AttrLists(vals) ==
  UNION { {f \in [K -> UNION {vals[k] : k \in K}] : \A k \in K : f[k] \in vals[k]} :
          K \in SUBSET DOMAIN vals }

TilesetAttrLists ==
  AttrLists([firstgid |-> {<<"1">>, <<"x">>},
             name |-> {<<"n">>},
             tilewidth |-> {<<"8">>, <<"x">>},
             tileheight |-> {<<"9">>},
             source |-> {<<"s", "/", "t">>, <<"/", "t">>}])

ExtTilesetAttrLists ==
  AttrLists([firstgid |-> {<<"4">>},
             name |-> {<<"e">>},
             tilewidth |-> {<<"5">>, <<"x">>},
             tileheight |-> {<<"6">>},
             margin |-> {<<"7">>}])

ObjectAttrLists ==
  AttrLists([x |-> {<<"1">>, <<"x">>},
             y |-> {<<"2">>, <<"x">>},
             width |-> {<<"3">>, <<"x">>},
             height |-> {<<"4">>}])

ObjectGroupAttrLists ==
  AttrLists([opacity |-> {<<"2">>, <<"x">>},
             visible |-> {<<"0">>, <<"x">>},
             name |-> {<<"g">>}])

ShapeAttrLists ==
  {NoAttrs} \cup
  {[k \in {"points"} |-> v] :
     v \in {<<"1", ",", "2">>, <<"1", ",", "2", " ", "2", ",", "1">>,
            <<"1", ",", "x">>, <<"1">>}}

MapPaths ==
  {None} \cup
  {Some(PathOf(v)) : v \in {<<"m">>, <<"/", "d", "/", "m">>, <<"d", "/", ".", ".">>}}

\* The tags the documents are written in: those the constructors handle, the
\* constructors' own, and one no constructor knows.
ObjectTags == {"object", "ellipse", "polyline", "polygon", "properties", "foo"}
ObjectGroupTags == {"objectgroup", "object", "ellipse", "polygon", "foo"}
TilesetTags == {"image", "tile", "foo", "tileset"}
DocTags ==
  CASE entry = "tileset" -> TilesetTags
    [] entry = "objectgroup" -> ObjectGroupTags
    [] OTHER -> ObjectTags

\* ------------------------------------------------------------ the cursor
\* EventReader keeps the open elements and reports each end tag against the
\* innermost one; fuel bounds the start tags and text events it delivers.
Cursor(open, fuel) == [open |-> open, fuel |-> fuel]
Started(c, name) == [open |-> Append(c.open, name), fuel |-> c.fuel - 1]
Ended(c) == [c EXCEPT !.open = SubSeq(c.open, 1, Len(c.open) - 1)]
Texted(c) == [c EXCEPT !.fuel = c.fuel - 1]
Innermost(c) == c.open[Len(c.open)]

\* SetActive with the primary cursor handed to parse_external_tileset.
SetActivePrimary(c) == cur' = c /\ ext' = ext

\* The cursor a running constructor reads: the external document's while
\* parse_external_tileset runs, the primary one otherwise.
Active == IF pc = "extparse" THEN ext ELSE cur
SetActive(c) ==
  IF pc = "extparse" THEN ext' = c /\ cur' = cur ELSE cur' = c /\ ext' = ext

\* --------------------------------------------------------------- frames
Frame(fn, tag, base, loc) == [fn |-> fn, tag |-> tag, base |-> base, skip |-> 0, loc |-> loc]
Top == stack[Len(stack)]
SetTop(f) == [stack EXCEPT ![Len(stack)] = f]

Collaborators == {"Image", "Tile", "Properties"}

\* The child tags parse_tag! is given a handler for, per constructor.
Handlers(fn) ==
  CASE fn = "ObjectGroup" -> {"object"}
    [] fn = "Object" -> {"ellipse", "polyline", "polygon", "properties"}
    [] fn \in {"Tileset", "ExtTileset"} -> {"image", "tile"}
    [] OTHER -> {}

NoEv == [name |-> "", routed |-> "none", got |-> "none"]
NoRet == [fn |-> "none", ok |-> FALSE]
NoEmb == [stage |-> "none"]
NoRef == [stage |-> "none"]

InitIdlePoints == pstr = <<>> /\ pres = None

InitCommon ==
  /\ pc = "call"
  /\ stack = <<>>
  /\ ext = Cursor(<<>>, MaxExtEvents)
  /\ result = None
  /\ emb = NoEmb
  /\ ref = NoRef
  /\ opened = <<>>
  /\ lastEv = NoEv
  /\ lastRet = NoRet
  /\ InitIdlePoints

InitTileset ==
  /\ entry = "tileset"
  /\ attrs0 \in TilesetAttrLists
  /\ mapPath \in MapPaths
  /\ cur = Cursor(<<"tileset">>, MaxTilesetEvents)
  /\ InitCommon

InitObject ==
  /\ \/ entry = "object" /\ attrs0 \in ObjectAttrLists
     \/ entry = "objectgroup" /\ attrs0 \in ObjectGroupAttrLists
  /\ mapPath = None
  /\ cur = Cursor(<<entry>>, MaxEvents)
  /\ InitCommon

\* ------------------------------------------------------ returns and errors
\* Tileset::new: new_internal(..).or_else(|_| new_reference(..)); where the
\* call goes once new_internal has returned r.
AfterInternalNoFallback(r) == "done"

AfterInternal(r) == IF r.ok THEN "done" ELSE "reference"

\* What a constructor returns at its closing tag.
ReturnValue(f) ==
  CASE f.fn = "Object" -> MakeObject(f.loc)
    [] f.fn = "ObjectGroup" -> MakeObjectGroup(f.loc)
    [] f.fn \in {"Tileset", "ExtTileset"} -> MakeTileset(f.loc.a, f.loc.images, f.loc.tiles)
    [] f.fn = "Image" -> "image"
    [] f.fn = "Tile" -> "tile"
    [] f.fn = "Properties" -> "properties"

\* Collect with a decoded object put in front of the earlier ones.
CollectInFront(parent, f) ==
  CASE f.fn = "Object" ->
         [parent EXCEPT !.loc.objects = <<ReturnValue(f)>> \o parent.loc.objects]
    [] f.fn = "Image" ->
         [parent EXCEPT !.loc.images = Append(parent.loc.images, ReturnValue(f))]
    [] f.fn = "Tile" ->
         [parent EXCEPT !.loc.tiles = Append(parent.loc.tiles, ReturnValue(f))]
    [] f.fn = "Properties" ->
         [parent EXCEPT !.loc.properties = ReturnValue(f)]

\* The handler's use of what the constructor it called returned.
Collect(parent, f) ==
  CASE f.fn = "Object" ->
         [parent EXCEPT !.loc.objects = Append(parent.loc.objects, ReturnValue(f))]
    [] f.fn = "Image" ->
         [parent EXCEPT !.loc.images = Append(parent.loc.images, ReturnValue(f))]
    [] f.fn = "Tile" ->
         [parent EXCEPT !.loc.tiles = Append(parent.loc.tiles, ReturnValue(f))]
    [] f.fn = "Properties" ->
         [parent EXCEPT !.loc.properties = ReturnValue(f)]

\* The entry call, or new_internal inside Tileset::new, returns r.
Finish(r) ==
  IF entry = "tileset" /\ pc \in {"call", "parse"}
  THEN /\ emb' = IF r.ok THEN [stage |-> "ok", val |-> r.val]
                 ELSE [stage |-> IF pc = "call" THEN "attrs" ELSE "dispatch", err |-> r.err]
       /\ pc' = AfterInternal(r)
       /\ result' = IF pc' = "done" THEN Some(r) ELSE result
  ELSE /\ emb' = emb
       /\ pc' = "done"
       /\ result' = Some(r)

\* The innermost constructor fails with e; every caller passes it on (try!).
Fail(fn, base, e, cause) ==
  /\ lastRet' = [fn |-> fn, ok |-> FALSE, base |-> base, err |-> e, cause |-> cause]
  /\ stack' = <<>>
  /\ Finish(Err(e))

\* The innermost constructor f returns Ok with the cursor left at c.
ReturnOk(f, c) ==
  /\ lastRet' = [fn |-> f.fn, ok |-> TRUE, base |-> f.base, depth |-> Len(c.open),
                 loc |-> f.loc, val |-> ReturnValue(f)]
  /\ IF Len(stack) = 1
     THEN stack' = <<>> /\ Finish(Ok(ReturnValue(f)))
     ELSE /\ stack' = Append(SubSeq(stack, 1, Len(stack) - 2),
                             Collect(stack[Len(stack) - 1], f))
          /\ UNCHANGED <<pc, result, emb>>

\* ------------------------------------------------------------ entry calls
TilesetNew ==
  /\ pc = "call" /\ entry = "tileset"
  /\ LET a == InternalAttrs(attrs0)
     IN  IF a.ok
         THEN /\ stack' = <<Frame("Tileset", "tileset", 1,
                                  [a |-> a.val, images |-> <<>>, tiles |-> <<>>])>>
              /\ pc' = "parse"
              /\ UNCHANGED <<result, emb, lastRet>>
         ELSE Fail("Tileset", 1, a.err, "attrs")
  /\ UNCHANGED <<pvars, entry, attrs0, mapPath, cur, ext, ref, opened, lastEv>>

ObjectGroupNew ==
  /\ pc = "call" /\ entry = "objectgroup"
  /\ LET a == ObjectGroupAttrs(attrs0)
     IN  IF a.ok
         THEN /\ stack' = <<Frame("ObjectGroup", "objectgroup", 1,
                                  [attrs |-> attrs0, a |-> a.val, objects |-> <<>>,
                                   tags |-> <<>>])>>
              /\ pc' = "parse"
              /\ UNCHANGED <<result, emb, lastRet>>
         ELSE Fail("ObjectGroup", 1, a.err, "attrs")
  /\ UNCHANGED <<pvars, entry, attrs0, mapPath, cur, ext, ref, opened, lastEv>>

\* ObjectFrame with the closing tag of the enclosing group given to parse_tag!.
ObjectFrameClosesGroup(attrs, a, base) ==
  Frame("Object", "objectgroup", base,
        [attrs |-> attrs, a |-> a, shape |-> None, properties |-> "empty", ran |-> <<>>])

\* The frame of Object::new after a successful get_attrs!: the locals, and
\* parse_tag!(parser, "object", ..).  ran lists the shape handlers that ran.
ObjectFrame(attrs, a, base) ==
  Frame("Object", "object", base,
        [attrs |-> attrs, a |-> a, shape |-> None, properties |-> "empty", ran |-> <<>>])

ObjectNew ==
  /\ pc = "call" /\ entry = "object"
  /\ LET a == ObjectAttrs(attrs0)
     IN  IF a.ok
         THEN /\ stack' = <<ObjectFrame(attrs0, a.val, 1)>>
              /\ pc' = "parse"
              /\ UNCHANGED <<result, emb, lastRet>>
         ELSE Fail("Object", 1, a.err, "attrs")
  /\ UNCHANGED <<pvars, entry, attrs0, mapPath, cur, ext, ref, opened, lastEv>>

\* ------------------------------------------------------------- parse_tag!
Parsing == pc \in {"parse", "extparse"} /\ stack # <<>>
ActiveTags == IF pc = "extparse" THEN TilesetTags ELSE DocTags

\* The constructor a consuming handler of scope calls for the child tag a.
Callee(scope, a) ==
  CASE scope = "ObjectGroup" /\ a = "object" -> "Object"
    [] scope = "Object" /\ a = "properties" -> "Properties"
    [] scope \in {"Tileset", "ExtTileset"} /\ a = "image" -> "Image"
    [] scope \in {"Tileset", "ExtTileset"} /\ a = "tile" -> "Tile"
    [] OTHER -> "none"

\* The dispatch scope a start tag falls in, read off the document alone:
\* above are the open elements between the outermost running constructor's
\* element and the tag.  A child with a consuming handler opens the callee's
\* scope, a child whose handler reads nothing leaves the scope as it is, and
\* beneath a child without a handler nothing is in any scope.
RECURSIVE ScopeOf(_, _)
ScopeOf(scope, above) ==
  IF above = <<>> THEN scope
  ELSE LET a == Head(above)
       IN  ScopeOf(IF a \notin Handlers(scope) THEN "skipped"
                   ELSE IF Callee(scope, a) # "none" THEN Callee(scope, a)
                   ELSE scope,
                   Tail(above))

\* The handler the document's structure routes the start tag name to.
Routed(c, name) ==
  LET scope == ScopeOf(stack[1].fn, SubSeq(c.open, stack[1].base + 1, Len(c.open)))
  IN  IF name \in Handlers(scope) THEN name ELSE "none"

Read(name, got) ==
  lastEv' = [name |-> name, routed |-> Routed(Active, name), got |-> got]

\* SkipFrom with the subtree of an unknown tag left to the dispatcher.
SkipNothing(c) == 0

\* A start tag without a handler: the depth of the element whose whole
\* subtree is then consumed and discarded.
SkipFrom(c) == Len(c.open) + 1

\* A start tag no handler is registered for: its subtree is to be skipped.
SkipUnknown ==
  /\ Parsing /\ Top.skip = 0 /\ Active.fuel > 0
  /\ \E name \in ActiveTags \ Handlers(Top.fn) :
       /\ SetActive(Started(Active, name))
       /\ stack' = SetTop([Top EXCEPT !.skip = SkipFrom(Active)])
       /\ Read(name, "none")
  /\ UNCHANGED <<pvars, entry, attrs0, mapPath, pc, result, emb, ref, opened, lastRet>>

\* Inside a skipped subtree: start tags and text are discarded.
SkipStart ==
  /\ Parsing /\ Top.skip > 0 /\ Active.fuel > 0
  /\ \E name \in ActiveTags :
       /\ SetActive(Started(Active, name))
       /\ Read(name, "none")
  /\ UNCHANGED <<pvars, entry, attrs0, mapPath, pc, stack, result, emb, ref, opened, lastRet>>

\* Inside a skipped subtree: an end tag; the skip ends with the unknown
\* element's own end tag.
SkipEnd ==
  /\ Parsing /\ Top.skip > 0 /\ Active.open # <<>>
  /\ LET c == Ended(Active)
     IN  /\ SetActive(c)
         /\ stack' = SetTop([Top EXCEPT !.skip = IF Len(c.open) < Top.skip THEN 0 ELSE Top.skip])
  /\ UNCHANGED <<pvars, entry, attrs0, mapPath, pc, result, emb, ref, opened, lastEv, lastRet>>

\* Text, comments and the like: ignored.
OtherEvent ==
  /\ Parsing /\ Active.fuel > 0
  /\ SetActive(Texted(Active))
  /\ UNCHANGED <<pvars, entry, attrs0, mapPath, pc, stack, result, emb, ref, opened, lastEv, lastRet>>

\* The end tag that terminates parse_tag!(parser, tag, ..).
CloseTagMatches(name, tag) == name = tag

\* The end tag of the constructor's element: it returns Ok.
CloseTag ==
  /\ Parsing /\ Top.skip = 0 /\ Active.open # <<>>
  /\ CloseTagMatches(Innermost(Active), Top.tag)
  /\ SetActive(Ended(Active))
  /\ ReturnOk(Top, Ended(Active))
  /\ UNCHANGED <<pvars, entry, attrs0, mapPath, ref, opened, lastEv>>

\* Any other end tag: ignored.
IgnoreEnd ==
  /\ Parsing /\ Top.skip = 0 /\ Active.open # <<>>
  /\ ~CloseTagMatches(Innermost(Active), Top.tag)
  /\ SetActive(Ended(Active))
  /\ UNCHANGED <<pvars, entry, attrs0, mapPath, pc, stack, result, emb, ref, opened, lastEv, lastRet>>

\* The document ends with the element open.
EndDocument ==
  /\ Parsing
  /\ Fail(Top.fn, Top.base, PrematureEnd(Top.tag), "eof")
  /\ UNCHANGED <<pvars, entry, attrs0, mapPath, cur, ext, ref, opened, lastEv>>

\* The cursor reports a decoding error.
DecodingError ==
  /\ Parsing
  /\ Fail(Top.fn, Top.base, XmlDecodingError, "decode")
  /\ UNCHANGED <<pvars, entry, attrs0, mapPath, cur, ext, ref, opened, lastEv>>

CollaboratorError == MalformedAttributes("collaborator")

\* Image::new, Tile::new or parse_properties fails on what it reads.
CollaboratorFails ==
  /\ Parsing /\ Top.fn \in Collaborators
  /\ Fail(Top.fn, Top.base, CollaboratorError, "handler")
  /\ UNCHANGED <<pvars, entry, attrs0, mapPath, cur, ext, ref, opened, lastEv>>

\* ---------------------------------------------------------------- handlers
Dispatching(fn, name) ==
  /\ Parsing /\ Top.skip = 0 /\ Active.fuel > 0
  /\ Top.fn \in fn
  /\ name \in ActiveTags

\* "object" => objects.push(try!(Object::new(parser, attrs)))
\* tags lists the attribute lists of the object tags the handler was given.
HandleObject ==
  /\ Dispatching({"ObjectGroup"}, "object")
  /\ LET c == Started(Active, "object")
     IN  /\ SetActive(c)
         /\ Read("object", "object")
         /\ \E attrs \in ObjectAttrLists :
              LET a == ObjectAttrs(attrs)
              IN  IF a.ok
                  THEN /\ stack' = Append(SetTop([Top EXCEPT !.loc.tags = Append(@, attrs)]),
                                          ObjectFrame(attrs, a.val, Len(c.open)))
                       /\ UNCHANGED <<pc, result, emb, lastRet>>
                  ELSE Fail("Object", Len(c.open), a.err, "attrs")
  /\ UNCHANGED <<pvars, entry, attrs0, mapPath, ref, opened>>

\* SetShape keeping the shape of an earlier child.
SetShapeIfUnset(loc, tag, attrs, value) ==
  [loc EXCEPT !.shape = IF loc.shape.some THEN loc.shape ELSE Some(value),
              !.ran = Append(@, [tag |-> tag, attrs |-> attrs])]

\* shape = Some(..) in the handler of the shape child tag; ran lists the
\* shape children handled so far, with their attributes.
SetShape(loc, tag, attrs, value) ==
  [loc EXCEPT !.shape = Some(value),
              !.ran = Append(@, [tag |-> tag, attrs |-> attrs])]

\* "ellipse" => shape = Some(Ellipse{width: w, height: h})
HandleEllipse ==
  /\ Dispatching({"Object"}, "ellipse")
  /\ SetActive(Started(Active, "ellipse"))
  /\ Read("ellipse", "ellipse")
  /\ stack' = SetTop([Top EXCEPT !.loc = SetShape(Top.loc, "ellipse", NoAttrs,
                                                   Ellipse(Top.loc.a.w, Top.loc.a.h))])
  /\ UNCHANGED <<pvars, entry, attrs0, mapPath, pc, result, emb, ref, opened, lastRet>>

\* "polyline" => shape = Some(try!(Object::new_polyline(attrs)))
HandlePolyline ==
  /\ Dispatching({"Object"}, "polyline")
  /\ SetActive(Started(Active, "polyline"))
  /\ Read("polyline", "polyline")
  /\ \E attrs \in ShapeAttrLists :
       LET r == new_polyline(attrs)
       IN  IF r.ok
           THEN /\ stack' = SetTop([Top EXCEPT !.loc = SetShape(Top.loc, "polyline", attrs, r.val)])
                /\ UNCHANGED <<pc, result, emb, lastRet>>
           ELSE Fail("Object", Top.base, r.err, "handler")
  /\ UNCHANGED <<pvars, entry, attrs0, mapPath, ref, opened>>

\* "polygon" => shape = Some(try!(Object::new_polygon(attrs)))
HandlePolygon ==
  /\ Dispatching({"Object"}, "polygon")
  /\ SetActive(Started(Active, "polygon"))
  /\ Read("polygon", "polygon")
  /\ \E attrs \in ShapeAttrLists :
       LET r == new_polygon(attrs)
       IN  IF r.ok
           THEN /\ stack' = SetTop([Top EXCEPT !.loc = SetShape(Top.loc, "polygon", attrs, r.val)])
                /\ UNCHANGED <<pc, result, emb, lastRet>>
           ELSE Fail("Object", Top.base, r.err, "handler")
  /\ UNCHANGED <<pvars, entry, attrs0, mapPath, ref, opened>>

\* A handler that calls a collaborator on the same cursor.
CallCollaborator(fn, name) ==
  /\ SetActive(Started(Active, name))
  /\ Read(name, name)
  /\ stack' = Append(stack, Frame(fn, name, Len(Active.open) + 1, [none |-> TRUE]))
  /\ UNCHANGED <<pvars, entry, attrs0, mapPath, pc, result, emb, ref, opened, lastRet>>

\* "properties" => properties = try!(parse_properties(parser))
HandleProperties ==
  /\ Dispatching({"Object"}, "properties")
  /\ CallCollaborator("Properties", "properties")

\* "image" => images.push(try!(Image::new(parser, attrs)))
HandleImage ==
  /\ Dispatching({"Tileset", "ExtTileset"}, "image")
  /\ CallCollaborator("Image", "image")

\* "tile" => tiles.push(try!(Tile::new(parser, attrs)))
HandleTile ==
  /\ Dispatching({"Tileset", "ExtTileset"}, "tile")
  /\ CallCollaborator("Tile", "tile")

\* ------------------------------------------------------------ new_reference
\* TilesetPath with the source opened as it stands when no map path is known.
TilesetPathOrSource(map_path, source) ==
  IF ~map_path.some THEN Ok(PathOf(source))
  ELSE Ok(WithFileName(map_path.val, source))

\* map_path.ok_or(Other(..))?.as_ref().with_file_name(source)
TilesetPath(map_path, source) ==
  IF ~map_path.some THEN Err(MustKnowLocation)
  ELSE Ok(WithFileName(map_path.val, source))

NewReference ==
  /\ pc = "reference"
  /\ LET a == ReferenceAttrs(attrs0)
         path == TilesetPath(mapPath, a.val.source)
     IN  IF ~a.ok
         THEN /\ ref' = [stage |-> "attrs"]
              /\ result' = Some(a) /\ pc' = "done" /\ opened' = opened
         ELSE IF ~path.ok
         THEN /\ ref' = [stage |-> "nopath"]
              /\ result' = Some(path) /\ pc' = "done" /\ opened' = opened
         ELSE LET tileset_path == path.val
              IN  /\ opened' = Append(opened, tileset_path)
                  /\ \E found \in BOOLEAN :
                       IF found
                       THEN /\ ref' = [stage |-> "opened", first_gid |-> a.val.first_gid]
                            /\ pc' = "scan" /\ result' = result
                       ELSE /\ ref' = [stage |-> "notfound"]
                            /\ result' = Some(Err(NotFound(tileset_path))) /\ pc' = "done"
  /\ UNCHANGED <<pvars, entry, attrs0, mapPath, stack, cur, ext, emb, lastEv, lastRet>>

\* ------------------------------------------------------------- new_external
ExternalEnded == PrematureEnd("Tileset Document ended before map was parsed")

\* IsTilesetStart with the name of the start tag not looked at.
IsAnyStart(name) == TRUE

\* if name.local_name == "tileset"
IsTilesetStart(name) == name = "tileset"

\* A start tag named tileset: parse_external_tileset takes over.
ScanTileset ==
  /\ pc = "scan" /\ ext.fuel > 0
  /\ \E name \in TilesetTags : IsTilesetStart(name) /\ ext' = Started(ext, name)
  /\ \E attrs \in ExtTilesetAttrLists :
       LET a == ExternalAttrs(ref.first_gid, attrs)
       IN  /\ IF a.ok
              THEN /\ ref' = [stage |-> "found", first_gid |-> ref.first_gid, tag |-> attrs]
                   /\ stack' = <<Frame("ExtTileset", "tileset", Len(ext.open) + 1,
                                       [a |-> a.val, images |-> <<>>, tiles |-> <<>>])>>
                   /\ pc' = "extparse"
                   /\ UNCHANGED <<result, lastRet>>
              ELSE /\ ref' = [stage |-> "badtag"]
                   /\ stack' = stack
                   /\ pc' = "done"
                   /\ result' = Some(a)
                   /\ lastRet' = [fn |-> "ExtTileset", ok |-> FALSE, base |-> Len(ext.open) + 1,
                                  err |-> a.err, cause |-> "attrs"]
  /\ UNCHANGED <<pvars, entry, attrs0, mapPath, cur, emb, opened, lastEv>>

\* Any other start tag, an end tag, text: the loop goes on.
ScanOther ==
  /\ pc = "scan"
  /\ \/ ext.fuel > 0 /\ \E name \in TilesetTags : ~IsTilesetStart(name) /\ ext' = Started(ext, name)
     \/ ext.fuel > 0 /\ ext' = Texted(ext)
     \/ ext.open # <<>> /\ ext' = Ended(ext)
  /\ UNCHANGED <<pvars, entry, attrs0, mapPath, pc, stack, cur, result, emb, ref, opened,
                 lastEv, lastRet>>

\* EndDocument before any tileset start tag.
ScanEndDocument ==
  /\ pc = "scan"
  /\ result' = Some(Err(ExternalEnded)) /\ pc' = "done"
  /\ ref' = [stage |-> "ended"]
  /\ UNCHANGED <<pvars, entry, attrs0, mapPath, stack, cur, ext, emb, opened,
                 lastEv, lastRet>>

\* tileset_parser.next() fails: map_err(TiledError::XmlDecodingError).
ScanError ==
  /\ pc = "scan"
  /\ result' = Some(Err(XmlDecodingError)) /\ pc' = "done"
  /\ ref' = [stage |-> "decoding"]
  /\ UNCHANGED <<pvars, entry, attrs0, mapPath, stack, cur, ext, emb, opened,
                 lastEv, lastRet>>

\* ----------------------------------------------------------- specifications
\* IgnoreEnd is a step of the object decoder alone: the end tag of an
\* ellipse, polyline or polygon.  Every child of a tileset is consumed by a
\* collaborator or skipped whole, so no foreign end tag reaches its dispatcher.
ParseTag ==
  \/ SkipUnknown \/ SkipStart \/ SkipEnd \/ OtherEvent
  \/ CloseTag \/ EndDocument \/ DecodingError \/ CollaboratorFails

NextTileset ==
  \/ TilesetNew \/ ParseTag \/ HandleImage \/ HandleTile
  \/ NewReference \/ ScanTileset \/ ScanOther \/ ScanEndDocument \/ ScanError

NextObject ==
  \/ ObjectGroupNew \/ ObjectNew \/ ParseTag \/ IgnoreEnd
  \/ HandleObject \/ HandleEllipse \/ HandlePolyline \/ HandlePolygon \/ HandleProperties

SpecTileset == InitTileset /\ [][NextTileset]_vars
SpecObject == InitObject /\ [][NextObject]_vars

\* Tileset::new_external called on an opened document, with the first_gid
\* of the referencing declaration.
InitExternal ==
  /\ entry = "external" /\ attrs0 = NoAttrs /\ mapPath = None
  /\ pc = "scan" /\ stack = <<>>
  /\ cur = Cursor(<<>>, 0)
  /\ ext = Cursor(<<>>, MaxScanEvents)
  /\ result = None /\ emb = NoEmb /\ opened = <<>>
  /\ \E g \in {1, 2} : ref = [stage |-> "opened", first_gid |-> g]
  /\ lastEv = NoEv /\ lastRet = NoRet
  /\ InitIdlePoints

NextExternal ==
  \/ ScanTileset \/ ScanOther \/ ScanEndDocument \/ ScanError
  \/ ParseTag \/ HandleImage \/ HandleTile

\* The loops of new_external and parse_tag! read the next event as long as
\* they have not returned, and the document is a finite sequence of events.
SpecExternal == InitExternal /\ [][NextExternal]_vars /\ WF_vars(NextExternal)

Init == InitTileset \/ InitObject

Next ==
  \/ TilesetNew \/ ObjectGroupNew \/ ObjectNew \/ ParseTag \/ IgnoreEnd
  \/ HandleObject \/ HandleEllipse \/ HandlePolyline \/ HandlePolygon \/ HandleProperties
  \/ HandleImage \/ HandleTile
  \/ NewReference \/ ScanTileset \/ ScanOther \/ ScanEndDocument \/ ScanError

Spec == Init /\ [][Next]_vars

\* --------------------------------------------------------------- SpecPoints
PtAlphabet == {"1", "2", ",", " ", "x"}

RECURSIVE StringsUpTo(_)
StringsUpTo(n) ==
  IF n = 0 THEN {<<>>}
  ELSE LET shorter == StringsUpTo(n - 1)
       IN  shorter \cup {Append(s, c) : s \in {t \in shorter : Len(t) = n - 1}, c \in PtAlphabet}

\* The attribute lists of a polyline or polygon tag: without points, or
\* with the string under test.
PointsAttrs(s) == {NoAttrs, [k \in {"points"} |-> s]}

InitPoints ==
  /\ pstr \in StringsUpTo(MaxLen)
  /\ pres = None
  /\ entry = "none" /\ attrs0 = NoAttrs /\ mapPath = None /\ pc = "idle"
  /\ stack = <<>> /\ cur = Cursor(<<>>, 0) /\ ext = Cursor(<<>>, 0)
  /\ result = None /\ emb = NoEmb /\ ref = NoRef /\ opened = <<>>
  /\ lastEv = NoEv /\ lastRet = NoRet

CallParsePoints ==
  /\ pres = None
  /\ pres' = Some([fn |-> "parse_points", attrs |-> NoAttrs, out |-> parse_points(pstr)])
  /\ UNCHANGED <<pstr, mvars>>

CallNewPolyline ==
  /\ pres = None
  /\ \E a \in PointsAttrs(pstr) :
       pres' = Some([fn |-> "new_polyline", attrs |-> a, out |-> new_polyline(a)])
  /\ UNCHANGED <<pstr, mvars>>

CallNewPolygon ==
  /\ pres = None
  /\ \E a \in PointsAttrs(pstr) :
       pres' = Some([fn |-> "new_polygon", attrs |-> a, out |-> new_polygon(a)])
  /\ UNCHANGED <<pstr, mvars>>

NextPoints == CallParsePoints \/ CallNewPolyline \/ CallNewPolygon

SpecPoints == InitPoints /\ [][NextPoints]_vars

\* ------------------------------------------------------------ claims: C10
\* A one-pass reading of a points string against the form
\* "x1,y1 x2,y2 ... xn,yn" (n >= 1, numbers written in digits, one space
\* between pairs): the points in string order, or bad when the string does
\* not have that form.  st is the place in the form: "x0" and "y0" expect
\* the first digit of a coordinate, "x" and "y" are inside one.
RECURSIVE ReadForm(_, _, _, _, _)
ReadForm(s, st, n, x, pts) ==
  IF s = <<>>
  THEN IF st = "y" THEN [form |-> TRUE, points |-> Append(pts, <<F32(x), F32(n)>>)]
       ELSE [form |-> FALSE]
  ELSE LET c == Head(s)
       IN  IF c \in Digits
           THEN ReadForm(Tail(s), IF st \in {"x0", "x"} THEN "x" ELSE "y",
                         10 * n + DigitVal(c), x, pts)
           ELSE IF c = "," /\ st = "x" THEN ReadForm(Tail(s), "y0", 0, n, pts)
           ELSE IF c = " " /\ st = "y"
           THEN ReadForm(Tail(s), "x0", 0, 0, Append(pts, <<F32(x), F32(n)>>))
           ELSE [form |-> FALSE]

WellFormedPoints(s) == ReadForm(s, "x0", 0, 0, <<>>)

\* C10: a points string of n pairs "x,y" separated by single spaces decodes
\* to exactly its n points in string order (parse_points, and the Polyline
\* or Polygon built from it); a string with a malformed pair decodes to an
\* error, whatever pairs came before it.
C10_PointsDecodeExactly ==
  pres.some =>
    LET r == pres.val
        w == WellFormedPoints(pstr)
    IN  /\ (r.fn = "parse_points" /\ w.form) =>
             (r.out.ok /\ r.out.val = w.points /\ Len(r.out.val) = Len(Split(pstr, " ")))
        /\ (r.fn = "parse_points" /\ ~w.form) => ~r.out.ok
        /\ (r.fn = "new_polyline" /\ r.attrs # NoAttrs) =>
             IF w.form THEN r.out = Ok(Polyline(w.points)) ELSE ~r.out.ok
        /\ (r.fn = "new_polygon" /\ r.attrs # NoAttrs) =>
             IF w.form THEN r.out = Ok(Polygon(w.points)) ELSE ~r.out.ok

\* Two pairs decoded in string order, and a malformed pair after a
\* well-formed one refused, are both reachable; the witness is the first.
C10_Witness ==
  /\ pstr = <<"1", ",", "2", " ", "2", ",", "1">>
  /\ pres.some
  /\ pres.val.fn = "parse_points"
  /\ pres.val.out = Ok(<< <<F32(1), F32(2)>>, <<F32(2), F32(1)>> >>)

\* ----------------------------------------------------- claims: Tileset::new
Done == pc = "done"
Returned == result.val

\* Key k of the tileset tag is present and coerces to a u32.
HasU32(k) == k \in DOMAIN attrs0 /\ ParseU32(attrs0[k]).some

\* The attribute set has firstgid, name, tilewidth and tileheight with
\* coercible values.
EmbeddedShaped ==
  HasU32("firstgid") /\ "name" \in DOMAIN attrs0 /\ HasU32("tilewidth") /\ HasU32("tileheight")

\* The attribute set has a source and a coercible firstgid.
ReferenceShaped == HasU32("firstgid") /\ "source" \in DOMAIN attrs0

\* C1: when the embedded attempt extracts its attributes and then fails
\* while dispatching children, Tileset::new returns that same error.
C1_DispatchErrorSurfaced ==
  (entry = "tileset" /\ Done /\ emb.stage = "dispatch") => Returned = Err(emb.err)

\* C2: the embedded schema is tried first and the reference schema second,
\* first success wins: after an embedded success its Tileset is returned and
\* the reference branch was never entered; after an embedded failure the
\* reference branch runs on the same attributes, and when its extraction of
\* firstgid and source fails the error returned is its own.
C2_EmbeddedThenReference ==
  entry = "tileset" =>
    /\ ref.stage # "none" => emb.stage \in {"attrs", "dispatch"}
    /\ emb.stage \in {"none", "ok"} => (opened = <<>> /\ ext = Cursor(<<>>, MaxExtEvents))
    /\ (Done /\ emb.stage = "ok") => Returned = Ok(emb.val)
    /\ (Done /\ emb.stage # "ok") =>
         /\ ref.stage # "none"
         /\ (ref.stage = "attrs") = ~ReferenceShaped
         /\ ~ReferenceShaped => Returned = Err(TilesetMalformed)
         /\ (~ReferenceShaped /\ emb.err # TilesetMalformed) => Returned # Err(emb.err)

C2_Witness ==
  /\ entry = "tileset" /\ Done
  /\ emb.stage = "dispatch" /\ emb.err.kind = "PrematureEnd"
  /\ ref.stage = "attrs"
  /\ Returned = Err(TilesetMalformed)

\* The directory of the map path followed by source: the map path with its
\* file name replaced by source.
FileNameReplaced(m, source) ==
  [abs |-> m.abs, comps |-> SubSeq(m.comps, 1, Len(m.comps) - 1) \o PathOf(source).comps]

\* The declaration carries only firstgid and source, and the map path is known.
OnlyReference ==
  entry = "tileset" /\ DOMAIN attrs0 = {"firstgid", "source"} /\ HasU32("firstgid")
  /\ mapPath.some

\* The fields of the returned Tileset: first_gid from the referencing
\* declaration, the rest from the external document's tileset tag.
FieldsFromExternalTag ==
  (Done /\ Returned.ok) =>
     /\ Returned.val.first_gid = ParseU32(attrs0["firstgid"]).val
     /\ Returned.val.name = ref.tag["name"]
     /\ Returned.val.tile_width = ParseU32(ref.tag["tilewidth"]).val
     /\ Returned.val.tile_height = ParseU32(ref.tag["tileheight"]).val
     /\ Returned.val.spacing =
          IF "spacing" \in DOMAIN ref.tag THEN ParseU32(ref.tag["spacing"]).val ELSE 0
     /\ Returned.val.margin =
          IF "margin" \in DOMAIN ref.tag THEN ParseU32(ref.tag["margin"]).val ELSE 0

\* C3 as stated: for a declaration with only firstgid and source and a known
\* map path, the path opened is the map path with its file name replaced by
\* source, and the returned Tileset has the declaration's firstgid and the
\* external tag's name, tile size, spacing and margin.
C3_AsStated ==
  OnlyReference =>
    /\ ref.stage \in {"opened", "found", "badtag", "notfound"} =>
         opened = <<FileNameReplaced(mapPath.val, attrs0["source"])>>
    /\ FieldsFromExternalTag

\* C3, amended: the same for a relative source and a map path that ends in
\* a file name.
C3_ExternalTilesetResolved ==
  OnlyReference =>
    /\ (ref.stage \in {"opened", "found", "badtag", "notfound"}
        /\ ~PathOf(attrs0["source"]).abs /\ FileName(mapPath.val).some) =>
         opened = <<FileNameReplaced(mapPath.val, attrs0["source"])>>
    /\ ref.stage \in {"none", "attrs", "nopath"} => opened = <<>>
    /\ FieldsFromExternalTag

C3_Witness ==
  /\ OnlyReference /\ Done /\ Returned.ok
  /\ mapPath.val = PathOf(<<"/", "d", "/", "m">>)
  /\ attrs0["source"] = <<"s", "/", "t">>
  /\ opened = <<PathOf(<<"/", "d", "/", "s", "/", "t">>)>>
  /\ "firstgid" \in DOMAIN ref.tag
  /\ Returned.val.first_gid = 1
  /\ Returned.val.images # <<>>

\* C4 as stated: a source attribute, a coercible firstgid and no known map
\* path make Tileset::new fail with the "must know file location" error, and
\* no file open is attempted.
C4_AsStated ==
  (entry = "tileset" /\ ReferenceShaped /\ ~mapPath.some) =>
    /\ opened = <<>>
    /\ Done => Returned = Err(MustKnowLocation)

\* C4, amended: the same whenever the embedded attempt fails.
C4_NoPathNoOpen ==
  (entry = "tileset" /\ ReferenceShaped /\ ~mapPath.some) =>
    /\ opened = <<>>
    /\ pc \notin {"scan", "extparse"}
    /\ (Done /\ emb.stage # "ok") => Returned = Err(MustKnowLocation)

C4_Witness ==
  /\ entry = "tileset" /\ ReferenceShaped /\ ~mapPath.some
  /\ Done /\ emb.stage = "attrs" /\ ref.stage = "nopath"
  /\ Returned = Err(MustKnowLocation)

C6_UnknownSubtreeSkipped ==
  /\ lastEv.got = lastEv.routed
  /\ Parsing =>
       LET beneath == SubSeq(Active.open, Top.base + 1, Len(Active.open))
       IN  (Top.skip > 0) = (ScopeOf(Top.fn, beneath) = "skipped")
  /\ (lastRet.fn \in {"Object", "ObjectGroup"} /\ lastRet.ok) =>
       lastRet.depth = lastRet.base - 1

\* An ellipse beneath an unknown tag inside an object: read, not handled.
C6_Witness ==
  /\ entry = "object" /\ Parsing
  /\ cur.open = <<"object", "foo", "ellipse">>
  /\ lastEv = [name |-> "ellipse", routed |-> "none", got |-> "none"]
  /\ Top.loc.shape = None

BadXY(attrs) == \E k \in {"x", "y"} : k \notin DOMAIN attrs \/ ~ParseF32(attrs[k]).some

\* The attribute lists of the Object::new calls that got past get_attrs!.
ObjectCallsPast ==
  {stack[i].loc.attrs : i \in {j \in 1..Len(stack) : stack[j].fn = "Object"}}
  \cup (IF lastRet.fn = "Object" /\ lastRet.ok THEN {lastRet.loc.attrs} ELSE {})

\* C8: Object::new fails with MalformedAttributes and returns no Object
\* whenever x or y is absent or fails numeric coercion, whatever the other
\* attributes and the children are.
C8_ObjectNeedsXY ==
  /\ (entry = "object" /\ BadXY(attrs0) /\ pc # "call") =>
       (Done /\ Returned = Err(ObjectMalformed) /\ stack = <<>>)
  /\ \A a \in ObjectCallsPast : ~BadXY(a)
  /\ (lastRet.fn = "Object" /\ ~lastRet.ok /\ lastRet.cause = "attrs") =>
       (Done /\ Returned = Err(ObjectMalformed))

C8_Witness ==
  /\ entry = "object" /\ Done
  /\ DOMAIN attrs0 = {"x", "width", "height"}
  /\ ParseF32(attrs0["x"]).some /\ ParseF32(attrs0["width"]).some
  /\ Returned = Err(ObjectMalformed)

\* The width or height attribute of an object as a number, 0 when absent.
OwnSize(attrs, k) ==
  IF k \in DOMAIN attrs /\ ParseF32(attrs[k]).some THEN ParseF32(attrs[k]).val ELSE F32(0)

\* C9: every Object returned has exactly one shape, and when no ellipse,
\* polyline or polygon handler ran it is Rect with the object's own width
\* and height attributes, each 0 when absent.
C9_DefaultShapeIsRect ==
  (lastRet.fn = "Object" /\ lastRet.ok) =>
    /\ lastRet.val.shape.kind \in {"Rect", "Ellipse", "Polyline", "Polygon"}
    /\ lastRet.loc.ran = <<>> =>
         lastRet.val.shape = Rect(OwnSize(lastRet.loc.attrs, "width"),
                                  OwnSize(lastRet.loc.attrs, "height"))
    /\ lastRet.loc.ran # <<>> => lastRet.val.shape.kind # "Rect"

C9_Witness ==
  /\ entry = "object" /\ Done /\ Returned.ok
  /\ lastRet.fn = "Object" /\ lastRet.loc.ran = <<>>
  /\ "height" \notin DOMAIN attrs0
  /\ Returned.val.shape = Rect(F32(3), F32(0))

\* ------------------------------------------------ claims: optional attributes
\* Key k is absent from attrs, or present with a value the coercion refuses.
AbsentOrUncoercible(attrs, k, closure) ==
  k \notin DOMAIN attrs \/ ~Coerce(closure, attrs[k]).some

\* The Object::new calls in progress or just returned: [attrs, a].
ObjectLocals ==
  {stack[i].loc : i \in {j \in 1..Len(stack) : stack[j].fn = "Object"}}
  \cup (IF lastRet.fn = "Object" /\ lastRet.ok THEN {lastRet.loc} ELSE {})

\* C11: for Object and ObjectGroup an optional attribute that is present
\* but fails its coercion decodes to the same field as an absent one, the
\* default (width and height 0; opacity 1, visible true), and never makes
\* construction fail: ObjectGroup::new never fails at attribute extraction,
\* and Object::new fails there only for x or y.
C11_OptionalDegrades ==
  /\ ~(lastRet.fn = "ObjectGroup" /\ ~lastRet.ok /\ lastRet.cause = "attrs")
  /\ (entry = "objectgroup" /\ pc # "call") => (emb = NoEmb /\ (Done \/ stack # <<>>))
  /\ (entry = "objectgroup" /\ Done /\ Returned.ok) =>
       /\ AbsentOrUncoercible(attrs0, "opacity", "ParseF32") => Returned.val.opacity = F32(1)
       /\ AbsentOrUncoercible(attrs0, "visible", "ParseVisibleFlag") => Returned.val.visible = TRUE
  /\ (entry = "object" /\ ~BadXY(attrs0)) =>
       ~(lastRet.fn = "Object" /\ ~lastRet.ok /\ lastRet.cause = "attrs")
  /\ \A l \in ObjectLocals :
       /\ AbsentOrUncoercible(l.attrs, "width", "ParseF32") => l.a.w = F32(0)
       /\ AbsentOrUncoercible(l.attrs, "height", "ParseF32") => l.a.h = F32(0)

\* A group with an uncoercible opacity and visible flag is built with the
\* defaults, around an object whose uncoercible width became 0.
C11_Witness ==
  /\ entry = "objectgroup" /\ Done /\ Returned.ok
  /\ "opacity" \in DOMAIN attrs0 /\ attrs0["opacity"] = <<"x">>
  /\ "visible" \in DOMAIN attrs0 /\ attrs0["visible"] = <<"x">>
  /\ Returned.val.opacity = F32(1) /\ Returned.val.visible = TRUE
  /\ Len(Returned.val.objects) = 1
  /\ lastRet.fn = "ObjectGroup"

\* ---------------------------------------------------- claims: ObjectGroup::new
\* The object o was decoded from the attribute list attrs of its start tag.
DecodedFrom(o, attrs) ==
  /\ o.x = ParseF32(attrs["x"]).val
  /\ o.y = ParseF32(attrs["y"]).val
  /\ o.shape.kind \in {"Rect", "Ellipse"} =>
       /\ o.shape.width = OwnSize(attrs, "width")
       /\ o.shape.height = OwnSize(attrs, "height")

\* The objects of a group are those of the first n object tags, in order.
InDocumentOrder(objects, tags, n) ==
  /\ Len(objects) = n
  /\ \A i \in 1..n : DecodedFrom(objects[i], tags[i])

\* C12: the objects of the ObjectGroup returned are one Object per object
\* start tag dispatched in the group's scope, in document order (while an
\* Object::new call runs, those of the tags before it); when a call of
\* Object::new fails, ObjectGroup::new returns that error and no ObjectGroup.
C12_ObjectsInDocumentOrder ==
  entry = "objectgroup" =>
    /\ (lastRet.fn = "ObjectGroup" /\ lastRet.ok) =>
         /\ Returned = Ok(lastRet.val)
         /\ InDocumentOrder(lastRet.val.objects, lastRet.loc.tags, Len(lastRet.loc.tags))
    /\ stack # <<>> =>
         InDocumentOrder(stack[1].loc.objects, stack[1].loc.tags,
                         Len(stack[1].loc.tags) - (IF Len(stack) > 1 THEN 1 ELSE 0))
    /\ (lastRet.fn # "none" /\ ~lastRet.ok) =>
         (Done /\ stack = <<>> /\ Returned = Err(lastRet.err))

\* Two different objects, returned in the order of their tags.
C12_Witness ==
  /\ entry = "objectgroup" /\ Done /\ Returned.ok
  /\ Len(Returned.val.objects) = 2
  /\ Returned.val.objects[1] # Returned.val.objects[2]
  /\ Returned.val.objects[1].shape = Rect(F32(3), F32(0))
  /\ Returned.val.objects[2].shape = Rect(F32(0), F32(4))

\* ------------------------------------------------- claims: shape children
\* The shape a shape child gives an object with attribute list own: the
\* child's tag and attributes alone decide it.
ShapeOfChild(child, own) ==
  CASE child.tag = "ellipse" -> Ellipse(OwnSize(own, "width"), OwnSize(own, "height"))
    [] child.tag = "polyline" -> Polyline(WellFormedPoints(child.attrs["points"]).points)
    [] child.tag = "polygon" -> Polygon(WellFormedPoints(child.attrs["points"]).points)

\* A polyline or polygon child that decodes: it has points of the form
\* "x1,y1 ... xn,yn".
ChildDecodes(child) ==
  child.tag \in {"polyline", "polygon"} =>
    ("points" \in DOMAIN child.attrs /\ WellFormedPoints(child.attrs["points"]).form)

\* C13: with several shape children under one object, all decoding, the
\* shape of the Object is the one of the last child in document order; an
\* Object::new call goes on, and returns an Object, only past polyline and
\* polygon children that decode: one that fails makes Object::new fail,
\* whatever shape an earlier child had set.
C13_LastShapeWins ==
  /\ \A l \in ObjectLocals :
       /\ \A i \in 1..Len(l.ran) : ChildDecodes(l.ran[i])
       /\ l.ran # <<>> => l.shape = Some(ShapeOfChild(l.ran[Len(l.ran)], l.attrs))
       /\ l.ran = <<>> => l.shape = None
  /\ (lastRet.fn = "Object" /\ lastRet.ok /\ lastRet.loc.ran # <<>>) =>
       lastRet.val.shape = ShapeOfChild(lastRet.loc.ran[Len(lastRet.loc.ran)], lastRet.loc.attrs)
  /\ (lastRet.fn = "Object" /\ ~lastRet.ok /\ lastRet.cause = "handler") =>
       (Done /\ stack = <<>> /\ ~Returned.ok /\ Returned.err = lastRet.err
        /\ lastRet.err.kind = "MalformedAttributes")

\* An ellipse, then a polyline: the object is the polyline.
C13_Witness ==
  /\ entry = "object" /\ Done /\ Returned.ok
  /\ Len(lastRet.loc.ran) = 2
  /\ lastRet.loc.ran[1].tag = "ellipse" /\ lastRet.loc.ran[2].tag = "polyline"
  /\ Returned.val.shape = Polyline(<< <<F32(1), F32(2)>> >>)

\* ------------------------------------------------- claims: new_external
\* parse_external_tileset was entered: at the start tag it was entered on.
ExternalEntered == ref.stage \in {"found", "badtag"}

\* C14: new_external reads the external document in order and ignores every
\* event before the first start tag named tileset, at whatever depth, where
\* parse_external_tileset takes over; end-of-document before such a tag
\* gives PrematureEnd, a decoding error of the cursor gives the decoding
\* error; and the scan terminates.
C14_ScanToFirstTileset ==
  /\ [](/\ pc = "scan" =>
            (ref.stage = "opened" /\ stack = <<>> /\ result = None /\ lastRet = NoRet
             /\ \A i \in 1..Len(ext.open) : ext.open[i] # "tileset")
        /\ pc = "extparse" =>
            (/\ ref.stage = "found" /\ stack # <<>>
             /\ stack[1].fn = "ExtTileset"
             /\ ext.open[stack[1].base] = "tileset"
             /\ \A i \in 1..(stack[1].base - 1) : ext.open[i] # "tileset")
        /\ ref.stage = "ended" => (Done /\ Returned = Err(ExternalEnded))
        /\ ref.stage = "decoding" => (Done /\ Returned = Err(XmlDecodingError))
        /\ (Done /\ ~ExternalEntered) => ref.stage \in {"ended", "decoding"})
  /\ (pc = "scan" ~> pc # "scan")

\* The tileset start tag is found beneath another element, after its start
\* tag was ignored.
C14_Witness ==
  /\ entry = "external" /\ pc = "extparse"
  /\ ext.open = <<"foo", "tileset">>
  /\ stack[1].base = 2

\* ------------------------------------------------------------ claims: C15
\* What is wrong with a pair, given its commas and tokens: "count" when it
\* is not two tokens, else "numeric" when a token is not a number.
PairVerdict(commas, numeric) ==
  IF commas # 1 THEN "count" ELSE IF ~numeric THEN "numeric" ELSE "none"

\* A one-pass reading of a points string, character by character: the
\* verdict of its first malformed pair, "none" when every pair is well
\* formed.  commas counts the commas of the pair being read, numeric tells
\* whether its finished tokens are numbers, len and digits describe the
\* token being read.
RECURSIVE FirstMalformed(_, _, _, _, _)
FirstMalformed(s, commas, numeric, len, digits) ==
  IF s = <<>> THEN PairVerdict(commas, numeric /\ digits /\ len > 0)
  ELSE LET c == Head(s)
       IN  IF c = " "
           THEN LET v == PairVerdict(commas, numeric /\ digits /\ len > 0)
                IN  IF v # "none" THEN v ELSE FirstMalformed(Tail(s), 0, TRUE, 0, TRUE)
           ELSE IF c = ","
           THEN FirstMalformed(Tail(s), commas + 1, numeric /\ digits /\ len > 0, 0, TRUE)
           ELSE FirstMalformed(Tail(s), commas, numeric, len + 1, digits /\ c \in Digits)

\* The Result the verdict v stands for.
VerdictIs(v, out) ==
  CASE v = "count" -> out = Err(NoXYPair)
    [] v = "numeric" -> out = Err(NotNumeric)
    [] OTHER -> out.ok

\* C15: parse_points examines the pairs in string order and its error is
\* the one of the first malformed pair: the "x and y coordinate" error for a
\* pair that is not two comma-separated tokens (the empty pair of an empty
\* string, of a leading or trailing space or of two spaces included), the
\* coordinates error for two tokens of which one is not numeric; the count
\* of a pair is checked before its numbers.  new_polyline and new_polygon
\* pass the error on.
C15_FirstMalformedPairDecides ==
  pres.some =>
    LET r == pres.val
        v == FirstMalformed(pstr, 0, TRUE, 0, TRUE)
    IN  /\ r.fn = "parse_points" => VerdictIs(v, r.out)
        /\ (r.fn \in {"new_polyline", "new_polygon"} /\ r.attrs # NoAttrs) => VerdictIs(v, r.out)
        /\ (r.fn = "parse_points" /\ pstr = <<>>) => r.out = Err(NoXYPair)
        /\ (r.fn = "parse_points" /\ pstr # <<>> /\ (pstr[1] = " " \/ pstr[Len(pstr)] = " ")) =>
             ~r.out.ok

\* Three tokens of which one is not numeric: the count decides.
C15_Witness ==
  /\ pstr = <<"1", ",", "x", ",", "2">>
  /\ pres.some
  /\ pres.val.fn = "parse_points"
  /\ pres.val.out = Err(NoXYPair)

\* ------------------------------------------------ claims: new_reference
\* The external document has not been read.
ExternalUnread == ext = Cursor(<<>>, MaxExtEvents) /\ pc \notin {"scan", "extparse"}

\* C16: the checks of the reference branch run in a fixed order, each a
\* final error: the extraction of firstgid and source (MalformedAttributes),
\* then the map path (Other, must know file location), then the file open
\* (Other naming the resolved path), then the parsing of the external
\* document.  A declaration without source fails with MalformedAttributes
\* also when the map path is unknown; nothing is opened before the first two
\* checks have passed, and nothing is parsed after a failed open; no check
\* runs twice.
C16_ReferenceChecksInOrder ==
  entry = "tileset" =>
    /\ Len(opened) <= 1
    /\ (ref.stage # "none" /\ ~ReferenceShaped) => ref.stage = "attrs"
    /\ (ref.stage # "none" /\ ReferenceShaped /\ ~mapPath.some) => ref.stage = "nopath"
    /\ ref.stage = "attrs" =>
         (Done /\ Returned = Err(TilesetMalformed) /\ opened = <<>> /\ ExternalUnread)
    /\ ref.stage = "nopath" =>
         (Done /\ Returned = Err(MustKnowLocation) /\ opened = <<>> /\ ExternalUnread)
    /\ ref.stage = "notfound" =>
         (/\ Done /\ Len(opened) = 1 /\ Returned = Err(NotFound(opened[1]))
          /\ opened[1] = WithFileName(mapPath.val, attrs0["source"])
          /\ ExternalUnread)
    /\ ~ExternalUnread =>
         (Len(opened) = 1 /\ ReferenceShaped /\ mapPath.some
          /\ ref.stage \in {"opened", "found", "badtag", "ended", "decoding"})
    /\ (Done /\ ref.stage # "none") => stack = <<>>

\* No source and no map path: the extraction error, not the map path's.
C16_Witness ==
  /\ entry = "tileset" /\ Done
  /\ HasU32("firstgid") /\ "source" \notin DOMAIN attrs0 /\ ~mapPath.some
  /\ ref.stage = "attrs"
  /\ Returned = Err(TilesetMalformed)
  /\ emb.stage = "attrs"

\* ------------------------------------------------- claims: frame effects
\* C17: when the embedded attempt of Tileset::new fails at attribute
\* extraction, the primary cursor stays, through the whole call and on
\* return, where it was on entry: just after the tileset start tag, the
\* children and the end tag unconsumed; the external document is read through
\* its own cursor.  Object::new consumes no event either when its extraction
\* of x and y fails: the cursor stays just after the object start tag.
C17_CursorUntouchedOnAttributeFailure ==
  /\ (entry = "tileset" /\ emb.stage = "attrs") =>
       cur = Cursor(<<"tileset">>, MaxTilesetEvents)
  /\ (entry = "object" /\ BadXY(attrs0)) => cur = Cursor(<<"object">>, MaxEvents)
  /\ (lastRet.fn = "Object" /\ ~lastRet.ok /\ lastRet.cause = "attrs") =>
       (/\ Len(cur.open) = lastRet.base
        /\ Innermost(cur) = "object"
        /\ lastEv.name = "object" \/ entry = "object")

\* An external tileset resolved, its document read, the primary cursor
\* where it was.
C17_Witness ==
  /\ entry = "tileset" /\ Done /\ Returned.ok
  /\ emb.stage = "attrs" /\ ref.stage = "found"
  /\ ext.fuel = 0
  /\ cur = Cursor(<<"tileset">>, MaxTilesetEvents)

====
